---------------------------- MODULE Spec2Model ----------------------------
(***************************************************************************)
(* PlotingGame: the Simulation class (src/simulation.py) with the tables   *)
(* of src/config.py it reads.                                              *)
(*                                                                         *)
(* Numbers. A Python float is modelled as a fixed-point decimal: the       *)
(* integer v stands for the real v / SCALE.  The functions of the math     *)
(* registry are fixed-point approximations of the libm functions with the  *)
(* same domains (the inputs on which they raise).  The normalized error    *)
(* is kept as an exact fraction <<num, den>>.                              *)
(*                                                                         *)
(* Texts. A Python str is a sequence of one-character strings, so that     *)
(* strip() and the substring test `in` are computed, not assumed.          *)
(* Optional values: None is the empty sequence <<>>, a value v is <<v>>    *)
(* (the error <<num, den>>).                                               *)
(***************************************************************************)
EXTENDS Integers, Sequences, FiniteSets, TLC

VARIABLES
    target_formula,   \* simulation.py:25
    target_pts,       \* simulation.py:26   sequence of <<x, y>>
    player_pts,       \* simulation.py:27
    y_min,            \* simulation.py:30
    y_max,            \* simulation.py:31
    is_valid,         \* simulation.py:34
    is_win,           \* simulation.py:35
    text_input,       \* simulation.py:36
    current_error,    \* simulation.py:37   <<>> (None) or <<num, den>>
    difficulty,       \* simulation.py:40
    level,            \* simulation.py:41
    score,            \* simulation.py:42
    hints_available,  \* simulation.py:43
    raised,           \* <<>> (None), or <<exception>> once an exception has left a
                      \* command: nothing catches it and the program ends
    state,            \* game.py:34      Game.state
    running,          \* game.py:35
    hint_message,     \* game.py:38      <<>> (None) or <<text>>
    hint_timer,       \* game.py:39
    menu_selection,   \* game.py:40      0 = Play, 1 = Instructions, 2 = Quit
    event,            \* game.py:59      the event handled last: <<>> (None), a key or "QUIT"
    op,               \* the command that produced this state
    ret               \* what that command returned: <<>> (None) or <<text>>

\* the fields of Game besides its Simulation
game_vars == << state, running, hint_message, hint_timer, menu_selection, event >>

vars == << target_formula, target_pts, player_pts, y_min, y_max, is_valid,
           is_win, text_input, current_error, difficulty, level, score,
           hints_available, raised, game_vars, op, ret >>

(***************************************************************************)
(* Bounds of the model.                                                    *)
(***************************************************************************)
\* Simulation.nb_points is 400 (simulation.py:22); the model samples the
\* same domain on a coarser grid of nb_points + 1 positions.
nb_points == 4
\* level grows without bound in the program; wins are cut off at MaxLevel.
MaxLevel == 12
\* in the specification of the key presses wins are cut off at MaxGameLevel
\* and the text typed at MaxText characters
MaxGameLevel == 3
MaxText == 1

(***************************************************************************)
(* Fixed-point reals.                                                      *)
(***************************************************************************)
SCALE == 10 ^ 3

None == << >>

Abs(a) == IF a < 0 THEN -a ELSE a
Max2(a, b) == IF a > b THEN a ELSE b
Min2(a, b) == IF a < b THEN a ELSE b

\* a * b and a / b on fixed-point reals (b # 0)
FMul(a, b) == (a * b) \div SCALE
FDiv(a, b) == IF b > 0 THEN (a * SCALE) \div b ELSE -((a * SCALE) \div (-b))

\* config.py:124-125
PI == 3142
E == 2718
LN2 == 693

\* math.sin: Bhaskara's rational approximation after reduction to [0, 2 pi)
SinHalf(r) ==
    LET p == r * (PI - r)
    IN  (16 * p) \div ((5 * PI * PI - 4 * p) \div SCALE)
Sin(a) ==
    LET r == a % (2 * PI)
    IN  IF r <= PI THEN SinHalf(r) ELSE -SinHalf(r - PI)
Cos(a) == Sin(a + PI \div 2)
\* math.tan never raises: at a pole of the fixed-point cosine it is large
Tan(a) ==
    IF Cos(a) = 0 THEN Sin(a) * SCALE ELSE FDiv(Sin(a), Cos(a))

\* math.exp for arguments whose result fits the fixed-point range
RECURSIVE EPow(_)
EPow(n) == IF n = 0 THEN SCALE ELSE FMul(EPow(n - 1), E)
ExpFrac(f) ==
    SCALE + f + FMul(f, f) \div 2 + FMul(FMul(f, f), f) \div 6
          + FMul(FMul(FMul(f, f), f), f) \div 24
ExpPos(a) == FMul(EPow(a \div SCALE), ExpFrac(a % SCALE))
RECURSIVE ENeg(_)
ENeg(n) == IF n = 0 THEN SCALE ELSE FDiv(ENeg(n - 1), E)
ExpNeg(a) == FDiv(ENeg(a \div SCALE), ExpFrac(a % SCALE))
Exp(a) == IF a >= 0 THEN ExpPos(a) ELSE ExpNeg(-a)

\* math.log for a > 0: a = m * 2^k with m in [1, 2), ln m by the atanh series
RECURSIVE LogRed(_, _)
LogRed(a, k) ==
    IF a >= 2 * SCALE THEN LogRed(a \div 2, k + 1)
    ELSE IF a < SCALE THEN LogRed(a * 2, k - 1)
    ELSE LET z  == FDiv(a - SCALE, a + SCALE)
             z3 == FMul(FMul(z, z), z)
             z5 == FMul(FMul(z3, z), z)
         IN  2 * (z + z3 \div 3 + z5 \div 5) + k * LN2
Log(a) == LogRed(a, 0)

\* math.sqrt for a >= 0: integer square root of a * SCALE by bisection
RECURSIVE ISqrt(_, _, _)
ISqrt(n, lo, hi) ==
    IF lo >= hi THEN lo
    ELSE CHOOSE out \in
            { IF mid * mid <= n THEN ISqrt(n, mid, hi) ELSE ISqrt(n, lo, mid - 1) :
                mid \in { (lo + hi + 1) \div 2 } } : TRUE
Sqrt(a) == ISqrt(a * SCALE, 0, Max2(a, SCALE))

Sinh(a) == (Exp(a) - Exp(-a)) \div 2
Cosh(a) == (Exp(a) + Exp(-a)) \div 2

\* math.atan
AtanUnit(a) == FMul(a, PI \div 4) + FMul(FMul(273, a), SCALE - a)
AtanPos(a) == IF a <= SCALE THEN AtanUnit(a) ELSE PI \div 2 - AtanUnit(FDiv(SCALE, a))
Atan(a) == IF a >= 0 THEN AtanPos(a) ELSE -AtanPos(-a)

\* math.floor
Floor(a) == (a \div SCALE) * SCALE

(***************************************************************************)
(* Texts.                                                                  *)
(***************************************************************************)
\* config.py:131  "sin(x)"
easy_1 ==
    <<"s", "i", "n", "(", "x", ")">>
\* config.py:132  "cos(x)"
easy_2 ==
    <<"c", "o", "s", "(", "x", ")">>
\* config.py:133  "x"
easy_3 ==
    <<"x">>
\* config.py:134  "x ** 2"
easy_4 ==
    <<"x", " ", "*", "*", " ", "2">>
\* config.py:137  "2 * sin(x)"
medium_1 ==
    <<"2", " ", "*", " ", "s", "i", "n", "(", "x", ")">>
\* config.py:138  "cos(x * 2)"
medium_2 ==
    <<"c", "o", "s", "(", "x", " ", "*", " ", "2", ")">>
\* config.py:139  "x ** 2 - 3"
medium_3 ==
    <<"x", " ", "*", "*", " ", "2", " ", "-", " ", "3">>
\* config.py:140  "sqrt(x + 1)"
medium_4 ==
    <<"s", "q", "r", "t", "(", "x", " ", "+", " ", "1", ")">>
\* config.py:141  "log(x + 1)"
medium_5 ==
    <<"l", "o", "g", "(", "x", " ", "+", " ", "1", ")">>
\* config.py:142  "sin(x) + cos(x)"
medium_6 ==
    <<"s", "i", "n", "(", "x", ")", " ", "+", " ", "c", "o", "s", "(", "x", ")">>
\* config.py:145  "sin(x) * cos(x)"
hard_1 ==
    <<"s", "i", "n", "(", "x", ")", " ", "*", " ", "c", "o", "s", "(", "x", ")">>
\* config.py:146  "exp(x / 5) - 2"
hard_2 ==
    <<"e", "x", "p", "(", "x", " ", "/", " ", "5", ")", " ", "-", " ", "2">>
\* config.py:147  "sin(x ** 2)"
hard_3 ==
    <<"s", "i", "n", "(", "x", " ", "*", "*", " ", "2", ")">>
\* config.py:148  "tan(x / 2)"
hard_4 ==
    <<"t", "a", "n", "(", "x", " ", "/", " ", "2", ")">>
\* config.py:149  "sqrt(abs(sin(x * 3)))"
hard_5 ==
    <<"s", "q", "r", "t", "(", "a", "b", "s", "(", "s", "i", "n", "(", "x", " ", "*", " ", "3", ")", ")", ")">>
\* config.py:150  "log(abs(x) + 1) * sin(x)"
hard_6 ==
    <<"l", "o", "g", "(", "a", "b", "s", "(", "x", ")", " ", "+", " ", "1", ")", " ", "*", " ", "s", "i", "n", "(", "x", ")">>
\* config.py:153  "sinh(x / 2)"
expert_1 ==
    <<"s", "i", "n", "h", "(", "x", " ", "/", " ", "2", ")">>
\* config.py:154  "sin(x) / (x + 1)"
expert_2 ==
    <<"s", "i", "n", "(", "x", ")", " ", "/", " ", "(", "x", " ", "+", " ", "1", ")">>
\* config.py:155  "exp(-x) * sin(x * 3)"
expert_3 ==
    <<"e", "x", "p", "(", "-", "x", ")", " ", "*", " ", "s", "i", "n", "(", "x", " ", "*", " ", "3", ")">>
\* config.py:156  "atan(x) * 2"
expert_4 ==
    <<"a", "t", "a", "n", "(", "x", ")", " ", "*", " ", "2">>
\* config.py:157  "floor(sin(x * 3)) + x / 5"
expert_5 ==
    <<"f", "l", "o", "o", "r", "(", "s", "i", "n", "(", "x", " ", "*", " ", "3", ")", ")", " ", "+", " ", "x", " ", "/", " ", "5">>
\* config.py:158  "cosh(x / 3) - 2"
expert_6 ==
    <<"c", "o", "s", "h", "(", "x", " ", "/", " ", "3", ")", " ", "-", " ", "2">>

FUNCTION_TEMPLATES ==
    [ easy |-> <<easy_1, easy_2, easy_3, easy_4>>,
      medium |-> <<medium_1, medium_2, medium_3, medium_4, medium_5, medium_6>>,
      hard |-> <<hard_1, hard_2, hard_3, hard_4, hard_5, hard_6>>,
      expert |-> <<expert_1, expert_2, expert_3, expert_4, expert_5, expert_6>> ]
\* ""
txt_empty ==
    <<>>
\* "x + 0.6"
txt_x_plus_06 ==
    <<"x", " ", "+", " ", "0", ".", "6">>
\* "x + 10"
txt_x_plus_10 ==
    <<"x", " ", "+", " ", "1", "0">>
\* "sin(x"
txt_unclosed ==
    <<"s", "i", "n", "(", "x">>
\* "1 / x"
txt_inv_x ==
    <<"1", " ", "/", " ", "x">>
\* "x + 0.7"
txt_x_plus_07 ==
    <<"x", " ", "+", " ", "0", ".", "7">>
\* "  "
txt_spaces ==
    <<" ", " ">>
\* "10 ** 400"
txt_big_int ==
    <<"1", "0", " ", "*", "*", " ", "4", "0", "0">>
\* "x +"
txt_trailing_op ==
    <<"x", " ", "+">>
\* "1e999"
txt_inf ==
    <<"1", "e", "9", "9", "9">>
\* "1e999 - 1e999"
txt_nan ==
    <<"1", "e", "9", "9", "9", " ", "-", " ", "1", "e", "9", "9", "9">>
\* "x * 1e999"
txt_x_inf ==
    <<"x", " ", "*", " ", "1", "e", "9", "9", "9">>
\* "(x - 5) ** 0.5"
txt_complex ==
    <<"(", "x", " ", "-", " ", "5", ")", " ", "*", "*", " ", "0", ".", "5">>
\* "sqrt(x - 5)"
txt_sqrt_neg ==
    <<"s", "q", "r", "t", "(", "x", " ", "-", " ", "5", ")">>
\* "sqrt(x - 20)"
txt_sqrt_far ==
    <<"s", "q", "r", "t", "(", "x", " ", "-", " ", "2", "0", ")">>
\* "log(x - 5)"
txt_log_neg ==
    <<"l", "o", "g", "(", "x", " ", "-", " ", "5", ")">>
\* "sin"
txt_func ==
    <<"s", "i", "n">>
\* "'x'"
txt_str ==
    <<"'", "x", "'">>
\* "__import__('os').system('ls')"
txt_import ==
    <<"_", "_", "i", "m", "p", "o", "r", "t", "_", "_", "(", "'", "o", "s", "'", ")", ".", "s", "y", "s", "t", "e", "m", "(", "'", "l", "s", "'", ")">>
\* "sin(x) + y"
txt_unknown ==
    <<"s", "i", "n", "(", "x", ")", " ", "+", " ", "y">>
\* "x > 5"
txt_cmp ==
    <<"x", " ", ">", " ", "5">>
\* "1 if x < 20 else y"
txt_cond ==
    <<"1", " ", "i", "f", " ", "x", " ", "<", " ", "2", "0", " ", "e", "l", "s", "e", " ", "y">>
\* "10.0 ** 400"
txt_float_pow ==
    <<"1", "0", ".", "0", " ", "*", "*", " ", "4", "0", "0">>
\* "5"
txt_const ==
    <<"5">>

\* str.strip(): leading and trailing blanks removed
RECURSIVE LStrip(_)
LStrip(s) == IF s # << >> /\ Head(s) = " " THEN LStrip(Tail(s)) ELSE s
RECURSIVE RStrip(_)
RStrip(s) ==
    IF s # << >> /\ s[Len(s)] = " " THEN RStrip(SubSeq(s, 1, Len(s) - 1)) ELSE s
Strip(s) == RStrip(LStrip(s))

\* the substring test `sub in s`
Contains(s, sub) ==
    \E i \in 1..(Len(s) - Len(sub) + 1) : SubSeq(s, i, i + Len(sub) - 1) = sub

(***************************************************************************)
(* eval(expr, {"__builtins__": {}}, ctx): Python's parser, then the        *)
(* evaluation of the syntax tree in the context ALLOWED_MATH + x.          *)
(***************************************************************************)
Num(v) == [op |-> "num", v |-> v]                 \* a float literal
IntNum(v) == [op |-> "int", v |-> v]              \* an int literal
InfNum == [op |-> "inf"]                          \* a float literal beyond the float range
Str == [op |-> "str"]                             \* a (non-empty) string literal
Name(id) == [op |-> "name", id |-> id]
Neg(a) == [op |-> "neg", a |-> a]
Bin(f, l, r) == [op |-> "bin", f |-> f, l |-> l, r |-> r]
Cmp(f, l, r) == [op |-> "cmp", f |-> f, l |-> l, r |-> r]
IfExp(test, body, orelse) == [op |-> "ifexp", test |-> test, body |-> body, orelse |-> orelse]
Attr(a, id) == [op |-> "attr", a |-> a, id |-> id]
Call(fn, args) == [op |-> "call", fn |-> fn, args |-> args]
CallOf(func, args) == [op |-> "callof", func |-> func, args |-> args]
SyntaxError == [op |-> "SyntaxError"]

\* game.py:116-117: the printable characters of the keys of the model (K_h is
\* taken by the hint request before it can be typed)
Typed == { " ", "p", "q", "x" }

\* a word of typed letters other than x: an identifier, and one that is not in
\* the context; its tree carries the identifier pqx for every such word
IsTypedWord(e) ==
    /\ e # << >>
    /\ e # << "x" >>
    /\ \A i \in DOMAIN e : e[i] \in Typed \ { " " }

\* The syntax tree Python's parser builds for each stripped text of the
\* model's universe; any other text of the universe is a SyntaxError.
Parse(e) ==
    CASE e = easy_1 -> Call("sin", <<Name("x")>>)
      [] e = easy_2 -> Call("cos", <<Name("x")>>)
      [] e = easy_3 -> Name("x")
      [] e = easy_4 -> Bin("**", Name("x"), IntNum(2000))
      [] e = medium_1 -> Bin("*", IntNum(2000), Call("sin", <<Name("x")>>))
      [] e = medium_2 -> Call("cos", <<Bin("*", Name("x"), IntNum(2000))>>)
      [] e = medium_3 -> Bin("-", Bin("**", Name("x"), IntNum(2000)), IntNum(3000))
      [] e = medium_4 -> Call("sqrt", <<Bin("+", Name("x"), IntNum(1000))>>)
      [] e = medium_5 -> Call("log", <<Bin("+", Name("x"), IntNum(1000))>>)
      [] e = medium_6 -> Bin("+", Call("sin", <<Name("x")>>), Call("cos", <<Name("x")>>))
      [] e = hard_1 -> Bin("*", Call("sin", <<Name("x")>>), Call("cos", <<Name("x")>>))
      [] e = hard_2 -> Bin("-", Call("exp", <<Bin("/", Name("x"), IntNum(5000))>>), IntNum(2000))
      [] e = hard_3 -> Call("sin", <<Bin("**", Name("x"), IntNum(2000))>>)
      [] e = hard_4 -> Call("tan", <<Bin("/", Name("x"), IntNum(2000))>>)
      [] e = hard_5 -> Call("sqrt", <<Call("abs", <<Call("sin", <<Bin("*", Name("x"), IntNum(3000))>>)>>)>>)
      [] e = hard_6 -> Bin("*", Call("log", <<Bin("+", Call("abs", <<Name("x")>>), IntNum(1000))>>), Call("sin", <<Name("x")>>))
      [] e = expert_1 -> Call("sinh", <<Bin("/", Name("x"), IntNum(2000))>>)
      [] e = expert_2 -> Bin("/", Call("sin", <<Name("x")>>), Bin("+", Name("x"), IntNum(1000)))
      [] e = expert_3 -> Bin("*", Call("exp", <<Neg(Name("x"))>>), Call("sin", <<Bin("*", Name("x"), IntNum(3000))>>))
      [] e = expert_4 -> Bin("*", Call("atan", <<Name("x")>>), IntNum(2000))
      [] e = expert_5 -> Bin("+", Call("floor", <<Call("sin", <<Bin("*", Name("x"), IntNum(3000))>>)>>), Bin("/", Name("x"), IntNum(5000)))
      [] e = expert_6 -> Bin("-", Call("cosh", <<Bin("/", Name("x"), IntNum(3000))>>), IntNum(2000))
      [] e = txt_x_plus_06 -> Bin("+", Name("x"), Num(600))
      [] e = txt_x_plus_07 -> Bin("+", Name("x"), Num(700))
      [] e = txt_x_plus_10 -> Bin("+", Name("x"), IntNum(10000))
      [] e = txt_inv_x -> Bin("/", IntNum(1000), Name("x"))
      [] e = txt_big_int -> Bin("**", IntNum(10000), IntNum(400000))
      [] e = txt_inf -> InfNum
      [] e = txt_nan -> Bin("-", InfNum, InfNum)
      [] e = txt_x_inf -> Bin("*", Name("x"), InfNum)
      [] e = txt_complex -> Bin("**", Bin("-", Name("x"), IntNum(5000)), Num(500))
      [] e = txt_sqrt_neg -> Call("sqrt", <<Bin("-", Name("x"), IntNum(5000))>>)
      [] e = txt_sqrt_far -> Call("sqrt", <<Bin("-", Name("x"), IntNum(20000))>>)
      [] e = txt_log_neg -> Call("log", <<Bin("-", Name("x"), IntNum(5000))>>)
      [] e = txt_func -> Name("sin")
      [] e = txt_str -> Str
      [] e = txt_import -> CallOf(Attr(Call("__import__", <<Str>>), "system"), <<Str>>)
      [] e = txt_unknown -> Bin("+", Call("sin", <<Name("x")>>), Name("y"))
      [] e = txt_cmp -> Cmp(">", Name("x"), IntNum(5000))
      [] e = txt_cond -> IfExp(Cmp("<", Name("x"), IntNum(20000)), IntNum(1000), Name("y"))
      [] e = txt_float_pow -> Bin("**", Num(10000), IntNum(400000))
      [] e = txt_const -> IntNum(5000)
      [] IsTypedWord(e) -> Name("pqx")
      [] OTHER -> SyntaxError

\* The outcome of one evaluation: a finite float, an int (a bool is an int)
\* that converts to a float, an int too large to convert to a float (its sign
\* and the logarithm of its magnitude), a float infinity (its sign), NaN, a
\* complex number, a non-numeric object, or a raised exception.
Real(v) == [k |-> "real", v |-> v]
Whole(v) == [k |-> "int", v |-> v]
BigInt(sg, ln) == [k |-> "bigint", v |-> ln, sg |-> sg]
Inf(sg) == [k |-> "inf", v |-> sg]
NaN == [k |-> "nan", v |-> 0]
Complex(re, im) == [k |-> "complex", v |-> re, im |-> im]
Object == [k |-> "object", v |-> 0]
Raise == [k |-> "raise", v |-> 0]

IsNum(a) == a.k \in {"real", "int"}
IsInt(a) == a.k \in {"int", "bigint"}
Sgn(v) == IF v > 0 THEN 1 ELSE IF v < 0 THEN -1 ELSE 0
\* the logarithm of the largest float, sys.float_info.max
LN_FLOAT_MAX == 709783

\* config.py:94-126: the callables of the registry that the model's texts use
UnaryFunctions ==
    {"sin", "cos", "tan", "atan", "sinh", "cosh", "sqrt", "log", "exp", "abs", "floor"}

\* one registry function applied to a finite float
Apply(fn, a) ==
    CASE fn = "sin"   -> Real(Sin(a))
      [] fn = "cos"   -> Real(Cos(a))
      [] fn = "tan"   -> Real(Tan(a))
      [] fn = "atan"  -> Real(Atan(a))
      [] fn = "sinh"  -> Real(Sinh(a))
      [] fn = "cosh"  -> Real(Cosh(a))
      [] fn = "exp"   -> Real(Exp(a))
      [] fn = "abs"   -> Real(Abs(a))
      [] fn = "floor" -> Real(Floor(a))
      \* ValueError: math domain error
      [] fn = "sqrt"  -> IF a < 0 THEN Raise ELSE Real(Sqrt(a))
      [] fn = "log"   -> IF a <= 0 THEN Raise ELSE Real(Log(a))

\* one registry function applied to a value of any kind
ApplyTo(fn, a) ==
    IF a.k = "object" THEN Raise                               \* TypeError
    ELSE IF a.k = "complex"
    THEN IF fn = "abs" THEN Real(ISqrt(a.v * a.v + a.im * a.im, 0, Abs(a.v) + Abs(a.im)))
         ELSE Raise                                            \* TypeError
    ELSE IF a.k = "bigint"
    THEN CASE fn = "abs" -> BigInt(1, a.v)
           [] fn = "floor" -> a
           [] fn = "log" -> IF a.sg > 0 THEN Real(a.v) ELSE Raise
           [] OTHER -> Raise                                   \* OverflowError
    ELSE IF a.k = "nan"
    THEN IF fn = "floor" THEN Raise ELSE NaN                   \* ValueError
    ELSE IF a.k = "inf"
    THEN CASE fn \in {"sin", "cos", "tan"} -> Raise            \* ValueError
           [] fn = "atan" -> Real(a.v * (PI \div 2))
           [] fn = "sinh" -> a
           [] fn \in {"cosh", "abs"} -> Inf(1)
           [] fn = "exp" -> IF a.v > 0 THEN a ELSE Real(0)
           [] fn = "floor" -> Raise                            \* OverflowError
           [] fn \in {"sqrt", "log"} -> IF a.v > 0 THEN a ELSE Raise
    \* abs and math.floor of an int are ints, math.floor of a float is an int
    ELSE IF fn = "floor" \/ (fn = "abs" /\ a.k = "int") THEN Whole(Apply(fn, a.v).v)
    ELSE Apply(fn, a.v)

\* a ** n for a whole n >= 0
RECURSIVE IPow(_, _)
IPow(a, n) == IF n = 0 THEN SCALE ELSE FMul(IPow(a, n - 1), a)

\* the logarithm of |a ** b| for a # 0
PowLn(a, b) == FMul(b, Log(Abs(a)))

\* float ** float
Power(a, b) ==
    IF a # 0 /\ PowLn(a, b) >= LN_FLOAT_MAX THEN Raise  \* OverflowError
    ELSE IF b % SCALE = 0
    THEN IF b >= 0 THEN Real(IPow(a, b \div SCALE))
         ELSE IF a = 0 THEN Raise                       \* ZeroDivisionError
         ELSE Real(FDiv(SCALE, IPow(a, (-b) \div SCALE)))
    ELSE IF a > 0 THEN Real(Exp(FMul(b, Log(a))))
    ELSE IF a = 0 THEN (IF b > 0 THEN Real(0) ELSE Raise)
    \* a negative base with a fractional exponent gives a complex number
    ELSE Complex(FMul(Exp(FMul(b, Log(-a))), Cos(FMul(b, PI))),
                 FMul(Exp(FMul(b, Log(-a))), Sin(FMul(b, PI))))

\* int ** int for an exponent >= 0: an int of any size
IntPower(a, b) ==
    IF a # 0 /\ PowLn(a, b) >= LN_FLOAT_MAX
    THEN BigInt(IF a < 0 /\ (b \div SCALE) % 2 = 1 THEN -1 ELSE 1, PowLn(a, b))
    ELSE Whole(IPow(a, b \div SCALE))

\* an operator on two finite floats
BinOp(f, a, b) ==
    CASE f = "+"  -> Real(a + b)
      [] f = "-"  -> Real(a - b)
      [] f = "*"  -> Real(FMul(a, b))
      [] f = "/"  -> IF b = 0 THEN Raise ELSE Real(FDiv(a, b))  \* ZeroDivisionError
      [] f = "**" -> Power(a, b)

\* an operator on two finite numbers: int with int gives an int, but for /
\* and for a negative exponent
NumOp(f, a, b) ==
    IF a.k = "int" /\ b.k = "int" /\ f # "/" /\ ~(f = "**" /\ b.v < 0)
    THEN IF f = "**" THEN IntPower(a.v, b.v) ELSE Whole(BinOp(f, a.v, b.v).v)
    ELSE BinOp(f, a.v, b.v)

\* an operator on floats (or ints that convert) of which one is inf or nan
FloatOp(f, a, b) ==
    IF a.k = "nan" \/ b.k = "nan"
    THEN IF f = "**" /\ ((IsNum(b) /\ b.v = 0) \/ (IsNum(a) /\ a.v = SCALE))
         THEN Real(SCALE) ELSE NaN
    ELSE CASE f = "+" ->
                IF a.k = "inf" /\ b.k = "inf" THEN (IF a.v = b.v THEN a ELSE NaN)
                ELSE IF a.k = "inf" THEN a ELSE b
           [] f = "-" ->
                IF a.k = "inf" /\ b.k = "inf" THEN (IF a.v # b.v THEN a ELSE NaN)
                ELSE IF a.k = "inf" THEN a ELSE Inf(-b.v)
           [] f = "*" ->
                IF Sgn(a.v) * Sgn(b.v) = 0 THEN NaN ELSE Inf(Sgn(a.v) * Sgn(b.v))
           [] f = "/" ->
                IF a.k = "inf" /\ b.k = "inf" THEN NaN
                ELSE IF b.k = "inf" THEN Real(0)
                ELSE IF b.v = 0 THEN Raise                      \* ZeroDivisionError
                ELSE Inf(a.v * Sgn(b.v))
           [] f = "**" /\ b.k = "inf" ->
                IF a.k = "inf" \/ Abs(a.v) > SCALE
                THEN (IF b.v > 0 THEN Inf(1) ELSE Real(0))
                ELSE IF Abs(a.v) = SCALE THEN Real(SCALE)
                ELSE IF b.v > 0 THEN Real(0)
                ELSE IF a.v = 0 THEN Raise                      \* ZeroDivisionError
                ELSE Inf(1)
           [] f = "**" /\ b.k # "inf" ->
                IF b.v = 0 THEN Real(SCALE)
                ELSE IF b.v < 0 THEN Real(0)
                ELSE IF a.v < 0 /\ b.v % (2 * SCALE) = SCALE THEN Inf(-1)
                ELSE Inf(1)

\* an operator of which one operand is an int too large for a float: with a
\* float operand the int is converted first
BigOp(f, a, b) ==
    IF ~IsInt(a) \/ ~IsInt(b) THEN Raise                        \* OverflowError
    ELSE CASE f = "*" /\ (a.v = 0 \/ b.v = 0) /\ (a.k = "int" \/ b.k = "int") -> Whole(0)
           [] f = "*" /\ a.k = "bigint" /\ b.k = "bigint" -> BigInt(a.sg * b.sg, a.v + b.v)
           [] f \in {"+", "-"} /\ a.k = "bigint" /\ b.k = "int" -> a
           [] f = "+" /\ a.k = "int" /\ b.k = "bigint" -> b
           [] f = "-" /\ a.k = "int" /\ b.k = "bigint" -> BigInt(-b.sg, b.v)
           [] f = "/" /\ a.k = "int" /\ b.k = "bigint" -> Real(0)
           [] f = "/" /\ a.k = "bigint" /\ b.k = "int" /\ b.v = 0 -> Raise  \* ZeroDivisionError
           [] f = "**" /\ a.k = "bigint" /\ b.k = "int" /\ b.v = 0 -> Whole(SCALE)

\* an operator of which one operand is complex
ComplexOp(f, a, b) ==
    IF a.k = "bigint" \/ b.k = "bigint" THEN Raise              \* OverflowError
    ELSE LET ai == IF a.k = "complex" THEN a.im ELSE 0
             bi == IF b.k = "complex" THEN b.im ELSE 0
             dd == FMul(b.v, b.v) + FMul(bi, bi)
         IN  CASE f = "+" /\ IsNum(a) /\ IsNum(b) -> Complex(a.v + b.v, ai + bi)
               [] f = "+" /\ a.k = "complex" /\ (IsNum(b) \/ b.k = "complex") -> Complex(a.v + b.v, ai + bi)
               [] f = "+" /\ IsNum(a) /\ b.k = "complex" -> Complex(a.v + b.v, ai + bi)
               [] f = "-" /\ (IsNum(a) \/ a.k = "complex") /\ (IsNum(b) \/ b.k = "complex") ->
                    Complex(a.v - b.v, ai - bi)
               [] f = "*" /\ (IsNum(a) \/ a.k = "complex") /\ (IsNum(b) \/ b.k = "complex") ->
                    Complex(FMul(a.v, b.v) - FMul(ai, bi), FMul(a.v, bi) + FMul(ai, b.v))
               [] f = "/" /\ (IsNum(a) \/ a.k = "complex") /\ (IsNum(b) \/ b.k = "complex") ->
                    IF dd = 0 THEN Raise                        \* ZeroDivisionError
                    ELSE Complex(FDiv(FMul(a.v, b.v) + FMul(ai, bi), dd),
                                 FDiv(FMul(ai, b.v) - FMul(a.v, bi), dd))

\* a binary operator on two values
Operate(f, a, b) ==
    IF a.k = "object" \/ b.k = "object" THEN Raise              \* TypeError
    ELSE IF a.k = "complex" \/ b.k = "complex" THEN ComplexOp(f, a, b)
    ELSE IF a.k = "bigint" \/ b.k = "bigint" THEN BigOp(f, a, b)
    ELSE IF IsNum(a) /\ IsNum(b) THEN NumOp(f, a, b)
    ELSE FloatOp(f, a, b)

\* unary minus
Negate(a) ==
    CASE a.k = "real" -> Real(-a.v)
      [] a.k = "int" -> Whole(-a.v)
      [] a.k = "bigint" -> BigInt(-a.sg, a.v)
      [] a.k = "inf" -> Inf(-a.v)
      [] a.k = "nan" -> NaN
      [] a.k = "complex" -> Complex(-a.v, -a.im)
      [] a.k = "object" -> Raise                                \* TypeError

\* the place of a real value (finite, infinite or a large int) in the order
Rank(a) ==
    CASE a.k = "inf" -> << 2 * a.v, 0 >>
      [] a.k = "bigint" -> << a.sg, a.sg * a.v >>
      [] OTHER -> << 0, a.v >>
Less(p, q) == p[1] < q[1] \/ (p[1] = q[1] /\ p[2] < q[2])

\* a comparison: a bool, which is an int
Bool(t) == Whole(IF t THEN SCALE ELSE 0)
Compare(f, a, b) ==
    IF a.k \in {"object", "complex"} \/ b.k \in {"object", "complex"}
    THEN CASE f \in {"<", ">", "<=", ">="} -> Raise             \* TypeError
    ELSE IF a.k = "nan" \/ b.k = "nan" THEN Bool(f = "!=")
    ELSE CASE f = "<"  -> Bool(Less(Rank(a), Rank(b)))
           [] f = ">"  -> Bool(Less(Rank(b), Rank(a)))
           [] f = "<=" -> Bool(~Less(Rank(b), Rank(a)))
           [] f = ">=" -> Bool(~Less(Rank(a), Rank(b)))
           [] f = "==" -> Bool(Rank(a) = Rank(b))
           [] f = "!=" -> Bool(Rank(a) # Rank(b))

\* the truth value of a value
Truthy(a) ==
    CASE IsNum(a) -> a.v # 0
      [] a.k = "complex" -> a.v # 0 \/ a.im # 0
      [] OTHER -> TRUE

\* simulation.py:124-128: the tree evaluated in ALLOWED_MATH + x, with no
\* builtins.  (A value is bound as the one element of a set where it is used
\* more than once, so that it is computed once.)
RECURSIVE Eval(_, _)
Eval(n, x) ==
    CASE n.op = "SyntaxError" -> Raise
      [] n.op = "num" -> Real(n.v)
      [] n.op = "int" -> Whole(n.v)
      [] n.op = "inf" -> Inf(1)
      [] n.op = "str" -> Object
      [] n.op = "name" ->
            IF n.id = "x" THEN Real(x)
            ELSE IF n.id = "pi" THEN Real(PI)
            ELSE IF n.id = "e" THEN Real(E)
            ELSE IF n.id \in UnaryFunctions THEN Object
            ELSE Raise                                   \* NameError
      [] n.op = "neg" ->
            CHOOSE out \in
                { IF a.k = "raise" THEN Raise ELSE Negate(a) :
                    a \in { Eval(n.a, x) } } : TRUE
      [] n.op = "bin" ->
            CHOOSE out \in
                { IF l.k = "raise" \/ r.k = "raise" THEN Raise ELSE Operate(n.f, l, r) :
                    l \in { Eval(n.l, x) }, r \in { Eval(n.r, x) } } : TRUE
      [] n.op = "cmp" ->
            CHOOSE out \in
                { IF l.k = "raise" \/ r.k = "raise" THEN Raise ELSE Compare(n.f, l, r) :
                    l \in { Eval(n.l, x) }, r \in { Eval(n.r, x) } } : TRUE
      \* only the branch the test selects is evaluated
      [] n.op = "ifexp" ->
            CHOOSE out \in
                { IF t.k = "raise" THEN Raise
                  ELSE IF Truthy(t) THEN Eval(n.body, x) ELSE Eval(n.orelse, x) :
                    t \in { Eval(n.test, x) } } : TRUE
      \* an attribute: its object is evaluated first
      [] n.op = "attr" ->
            CHOOSE out \in
                { CASE a.k = "raise" -> Raise
                    [] IsNum(a) /\ n.id = "real" -> a :
                    a \in { Eval(n.a, x) } } : TRUE
      [] n.op = "call" ->
            IF n.fn \notin UnaryFunctions THEN Raise     \* NameError
            ELSE IF Len(n.args) # 1 THEN Raise           \* TypeError
            ELSE CHOOSE out \in
                    { IF a.k = "raise" THEN Raise ELSE ApplyTo(n.fn, a) :
                        a \in { Eval(n.args[1], x) } } : TRUE
      \* a call of anything but a name: the callee is evaluated first
      [] n.op = "callof" ->
            CHOOSE out \in
                { CASE f.k = "raise" -> Raise :
                    f \in { Eval(n.func, x) } } : TRUE

(***************************************************************************)
(* Simulation._calc_points                                                 *)
(***************************************************************************)
\* simulation.py:21
x_lo == 0
x_hi == 10

\* simulation.py:118, 122
step == ((x_hi - x_lo) * SCALE) \div nb_points
val_x(i) == x_lo * SCALE + i * step

\* simulation.py:127-143: evaluate at one position: the position is skipped,
\* kept with the value y, or the exception that math.isnan raises for an int
\* too large for a float (an OverflowError, which is not a TypeError) leaves
\* _calc_points
Skip == [k |-> "skip"]
Kept(y) == [k |-> "keep", y |-> y]
Escapes(exc) == [k |-> "raise", exc |-> exc]
SampleAt(tree, i) ==
    CHOOSE out \in
        { CASE r.k = "raise" -> Skip                \* except Exception: continue
            [] r.k = "object" -> Skip               \* except TypeError: continue
            [] r.k \in {"nan", "inf"} -> Skip       \* if isnan or isinf: continue
            [] r.k = "bigint" -> Escapes("OverflowError")
            [] r.k \in {"real", "int", "complex"} -> Kept(r.v) :  \* a complex keeps its real part
            r \in { Eval(tree, val_x(i)) } } : TRUE

\* simulation.py:143-147: the accumulators after a kept value y at position i
Keep(acc, i, y) ==
    [ pts    |-> Append(acc.pts, << val_x(i), y >>),
      mn     |-> IF acc.mn = << >> \/ y < acc.mn[1] THEN << y >> ELSE acc.mn,
      mx     |-> IF acc.mx = << >> \/ y > acc.mx[1] THEN << y >> ELSE acc.mx,
      raised |-> None ]

\* simulation.py:119-147: the loop, with mn / mx = <<>> standing for +inf / -inf;
\* an exception that is not caught ends it
RECURSIVE SampleLoop(_, _, _)
SampleLoop(tree, i, acc) ==
    IF i > nb_points \/ acc.raised # None THEN acc
    ELSE CHOOSE out \in
            { SampleLoop(tree, i + 1, a) :
                a \in { CASE y.k = "skip" -> acc
                          [] y.k = "keep" -> Keep(acc, i, y.y)
                          [] y.k = "raise" -> [acc EXCEPT !.raised = << y.exc >>] :
                        y \in { SampleAt(tree, i) } } } : TRUE

\* simulation.py:149-156
Curve(acc) ==
    LET valid == acc.mn # << >>
        mn    == IF valid THEN acc.mn[1] ELSE -5 * SCALE
        mx    == IF valid THEN acc.mx[1] ELSE 5 * SCALE
    IN  [ pts    |-> acc.pts,
          valid  |-> valid,
          mn     |-> IF mn = mx THEN mn - SCALE ELSE mn,
          mx     |-> IF mn = mx THEN mx + SCALE ELSE mx,
          raised |-> acc.raised ]

\* simulation.py:106-156: the tuple returned, or (raised # None) the exception
\* that leaves the method instead
sample_expr(expr) ==
    CHOOSE out \in
        { IF e = << >>
          THEN [pts |-> << >>, valid |-> FALSE, mn |-> -5 * SCALE, mx |-> 5 * SCALE,
                raised |-> None]
          ELSE CHOOSE c \in
                  { Curve(acc) :
                      acc \in { SampleLoop(tree, 0, [pts |-> << >>, mn |-> << >>,
                                                     mx |-> << >>, raised |-> None]) :
                                tree \in { Parse(e) } } } : TRUE :
          e \in { Strip(expr) } } : TRUE

\* every formula of config.py:129-160
AllTemplates ==
    UNION { { FUNCTION_TEMPLATES[t][i] : i \in DOMAIN FUNCTION_TEMPLATES[t] } :
            t \in DOMAIN FUNCTION_TEMPLATES }

\* the texts update_player is called with in the model, besides the formulas
FixedTexts ==
    { txt_empty, txt_spaces, txt_x_plus_06, txt_x_plus_10, txt_unclosed, txt_inv_x,
      txt_big_int }

\* a formula with a blank typed after it
Trailing(f) == Append(f, " ")

\* further texts, of every kind of outcome of an evaluation
SamplerTexts ==
    { txt_trailing_op, txt_inf, txt_nan, txt_x_inf, txt_complex, txt_sqrt_neg,
      txt_sqrt_far, txt_log_neg, txt_func, txt_str, txt_import, txt_unknown,
      txt_cmp, txt_cond, txt_float_pow, txt_x_plus_07 }

\* the texts target_formula is assigned directly, besides the formulas: a
\* constant, a text that is skipped at one position, a malformed text
TargetTexts == { txt_const, txt_inv_x, txt_unclosed }

\* game.py:102-117: the texts of at most n characters typed with the keys
RECURSIVE TextsUpTo(_)
TextsUpTo(n) ==
    IF n = 0 THEN { << >> }
    ELSE CHOOSE out \in
            { T \cup { Append(t, c) : t \in T, c \in Typed } : T \in { TextsUpTo(n - 1) } } : TRUE
GameTexts == TextsUpTo(MaxText)

\* every text of the model
Universe ==
    AllTemplates \cup { Trailing(f) : f \in AllTemplates } \cup FixedTexts \cup SamplerTexts
    \cup TargetTexts \cup { Trailing(f) : f \in TargetTexts } \cup GameTexts

\* _calc_points is a pure function of its argument: its results over the
\* texts of the model are computed once, as the set of (text, result)
CurveTable == { << e, sample_expr(e) >> : e \in Universe }
calc_points(expr) == (CHOOSE p \in CurveTable : p[1] = expr)[2]

(***************************************************************************)
(* config.py: difficulty settings and scoring constants.                   *)
(***************************************************************************)
\* config.py:164-169, in the dictionary's order.  A threshold is <<n>>, or
\* <<>> for float('inf'); error_tolerance is in hundredths (0.05 is 5).
TierOrder == << "easy", "medium", "hard", "expert" >>
DIFFICULTY_LEVELS ==
    [ easy   |-> [threshold |-> << 3 >>,  points |-> 100, error_tolerance |-> 5],
      medium |-> [threshold |-> << 6 >>,  points |-> 200, error_tolerance |-> 4],
      hard   |-> [threshold |-> << 10 >>, points |-> 300, error_tolerance |-> 3],
      expert |-> [threshold |-> << >>,    points |-> 500, error_tolerance |-> 2] ]
TOL_DEN == 10 ^ 2

SKIP_PENALTY == 50
INITIAL_HINTS == 3
\* config.py:175, in hundredths
WIN_ERROR_THRESHOLD == 5
\* config.py:179: 0.2 as a fixed-point real
Y_RANGE_MARGIN == 200
\* simulation.py:197: the floor 1e-6 of the span is the smallest positive
\* fixed-point real
SPAN_EPS == 1

(***************************************************************************)
(* Simulation.  An object is the record of its fields; a method is an      *)
(* operator from the object (and the arguments) to the object it leaves,   *)
(* or to the set of objects it can leave when it draws at random.          *)
(***************************************************************************)
\* mutant of TierFrom: the threshold compared with < (off by one)
RECURSIVE TierFrom_lt(_, _)
TierFrom_lt(lv, i) ==
    IF i > Len(TierOrder) THEN "expert"
    ELSE LET th == DIFFICULTY_LEVELS[TierOrder[i]].threshold
         IN  IF th = << >> \/ lv < th[1] THEN TierOrder[i] ELSE TierFrom_lt(lv, i + 1)

\* simulation.py:63-68
RECURSIVE TierFrom(_, _)
TierFrom(lv, i) ==
    IF i > Len(TierOrder) THEN "expert"
    ELSE LET th == DIFFICULTY_LEVELS[TierOrder[i]].threshold
         IN  IF th = << >> \/ lv <= th[1] THEN TierOrder[i] ELSE TierFrom(lv, i + 1)
\* mutant of get_difficulty_for_level: the tier of the next level
get_difficulty_for_level_next(lv) == TierFrom(lv + 1, 1)
get_difficulty_for_level(lv) == TierFrom(lv, 1)

\* mutant of calc_target: the target curve is not recomputed
calc_target_stale(s) == s

\* mutant of calc_target: the y-range without the margin
calc_target_nomargin(s) ==
    CHOOSE out \in
        { IF r.raised # None THEN [s EXCEPT !.raised = r.raised]
          ELSE IF ~r.valid THEN s
          ELSE [s EXCEPT !.target_pts = r.pts, !.y_min = r.mn, !.y_max = r.mx] :
            r \in { calc_points(s.target_formula) } } : TRUE

\* simulation.py:158-167
calc_target(s) ==
    CHOOSE out \in
        { LET span == IF r.mx - r.mn = 0 THEN SCALE ELSE r.mx - r.mn
          IN  IF r.raised # None THEN [s EXCEPT !.raised = r.raised]
              ELSE IF ~r.valid THEN s
              ELSE [s EXCEPT !.target_pts = r.pts,
                             !.y_min = r.mn - FMul(span, Y_RANGE_MARGIN),
                             !.y_max = r.mx + FMul(span, Y_RANGE_MARGIN)] :
            r \in { calc_points(s.target_formula) } } : TRUE

\* mutant of reset_player: the win flag is not cleared
reset_player_keep_win(s, f) ==
    [s EXCEPT !.target_formula = f,
              !.text_input = << >>,
              !.player_pts = << >>,
              !.current_error = None]

\* test_simulation.py:88-89: target_formula assigned, then _calc_target()
set_target(s, f) == calc_target([s EXCEPT !.target_formula = f])

\* simulation.py:52-57: the player's fields as new_level resets them
reset_player(s, f) ==
    [s EXCEPT !.target_formula = f,
              !.text_input = << >>,
              !.player_pts = << >>,
              !.is_win = FALSE,
              !.current_error = None]

\* mutant of new_level: a new level refills the hint budget
new_level_refill(s) ==
    LET d == get_difficulty_for_level(s.level)
    IN  { calc_target(reset_player([s EXCEPT !.difficulty = d,
                                             !.hints_available = INITIAL_HINTS],
                                   FUNCTION_TEMPLATES[d][i])) :
            i \in DOMAIN FUNCTION_TEMPLATES[d] }

\* simulation.py:47-59: random.choice makes it a set of outcomes
new_level(s) ==
    LET d == get_difficulty_for_level(s.level)
    IN  { calc_target(reset_player([s EXCEPT !.difficulty = d], FUNCTION_TEMPLATES[d][i])) :
            i \in DOMAIN FUNCTION_TEMPLATES[d] }

\* mutant of Simulation: the constructor does not start a level
Simulation_no_level ==
    { [ target_formula  |-> << >>,
        target_pts      |-> << >>,
        player_pts      |-> << >>,
        y_min           |-> -5 * SCALE,
        y_max           |-> 5 * SCALE,
        is_valid        |-> TRUE,
        is_win          |-> FALSE,
        text_input      |-> << >>,
        current_error   |-> None,
        difficulty      |-> "easy",
        level           |-> 1,
        score           |-> 0,
        hints_available |-> INITIAL_HINTS,
        raised          |-> None ] }

\* simulation.py:19-45
Simulation ==
    new_level([ target_formula  |-> << >>,
                target_pts      |-> << >>,
                player_pts      |-> << >>,
                y_min           |-> -5 * SCALE,
                y_max           |-> 5 * SCALE,
                is_valid        |-> TRUE,
                is_win          |-> FALSE,
                text_input      |-> << >>,
                current_error   |-> None,
                difficulty      |-> "easy",
                level           |-> 1,
                score           |-> 0,
                hints_available |-> INITIAL_HINTS,
                raised          |-> None ])

\* mutants of skip_score: the penalty without the floor; min for max
skip_score_nofloor(sc) == sc - SKIP_PENALTY
skip_score_min(sc) == Min2(0, sc - SKIP_PENALTY)

\* simulation.py:221
skip_score(sc) == Max2(0, sc - SKIP_PENALTY)

\* simulation.py:219-222
skip_level(s) == new_level([s EXCEPT !.score = skip_score(s.score)])

\* simulation.py:199-204: the sum of |py - ty| over the first n pairs
RECURSIVE SumAbs(_, _, _)
SumAbs(tp, pp, n) ==
    IF n = 0 THEN 0 ELSE SumAbs(tp, pp, n - 1) + Abs(pp[n][2] - tp[n][2])

\* simulation.py:210
error_threshold(diff) ==
    IF diff \in DOMAIN DIFFICULTY_LEVELS
    THEN DIFFICULTY_LEVELS[diff].error_tolerance ELSE WIN_ERROR_THRESHOLD

\* mutant of IsBelow: an error equal to the tolerance counts as below it
IsBelow_le(err, tol) == err[1] * TOL_DEN <= tol * err[2]

\* mutant of IsBelow: the comparison inverted
IsBelow_inverted(err, tol) == err[1] * TOL_DEN > tol * err[2]

\* simulation.py:211: avg_err < error_threshold, for avg_err = err[1] / err[2]
IsBelow(err, tol) == err[1] * TOL_DEN < tol * err[2]

\* simulation.py:215
points_for(diff) ==
    IF diff \in DOMAIN DIFFICULTY_LEVELS THEN DIFFICULTY_LEVELS[diff].points ELSE 100

\* mutant of check_win: a win recomputes difficulty from the new level
check_win_recompute(s) ==
    IF s.target_pts = << >> \/ s.player_pts = << >>
    THEN [s EXCEPT !.is_win = FALSE, !.current_error = None]
    ELSE LET n    == Min2(Len(s.target_pts), Len(s.player_pts))
             span == Max2(s.y_max - s.y_min, SPAN_EPS)
             err  == << SumAbs(s.target_pts, s.player_pts, n), span * n >>
             win  == IsBelow(err, error_threshold(s.difficulty))
         IN  IF win
             THEN [s EXCEPT !.current_error = err,
                            !.is_win = TRUE,
                            !.score = s.score + points_for(s.difficulty),
                            !.level = s.level + 1,
                            !.difficulty = get_difficulty_for_level(s.level + 1)]
             ELSE [s EXCEPT !.current_error = err, !.is_win = FALSE]

\* simulation.py:183-217
check_win(s) ==
    IF s.target_pts = << >> \/ s.player_pts = << >>
    THEN [s EXCEPT !.is_win = FALSE, !.current_error = None]
    ELSE LET n    == Min2(Len(s.target_pts), Len(s.player_pts))
             span == Max2(s.y_max - s.y_min, SPAN_EPS)
             err  == << SumAbs(s.target_pts, s.player_pts, n), span * n >>
             win  == IsBelow(err, error_threshold(s.difficulty))
         IN  IF win
             THEN [s EXCEPT !.current_error = err,
                            !.is_win = TRUE,
                            !.score = s.score + points_for(s.difficulty),
                            !.level = s.level + 1]
             ELSE [s EXCEPT !.current_error = err, !.is_win = FALSE]

\* mutant of update_player: an invalid text does not clear the win flag
update_player_keep_win(s, text) ==
    CHOOSE out \in
        { LET t == [s EXCEPT !.text_input = text, !.is_valid = r.valid]
          IN  IF r.raised # None THEN [s EXCEPT !.text_input = text, !.raised = r.raised]
              ELSE IF r.valid
              THEN check_win([t EXCEPT !.player_pts = r.pts])
              ELSE [t EXCEPT !.player_pts = << >>, !.current_error = None] :
            r \in { calc_points(text) } } : TRUE

\* simulation.py:169-181
update_player(s, text) ==
    CHOOSE out \in
        { LET t == [s EXCEPT !.text_input = text, !.is_valid = r.valid]
          IN  IF r.raised # None THEN [s EXCEPT !.text_input = text, !.raised = r.raised]
              ELSE IF r.valid
              THEN check_win([t EXCEPT !.player_pts = r.pts])
              ELSE [t EXCEPT !.player_pts = << >>, !.is_win = FALSE, !.current_error = None] :
            r \in { calc_points(text) } } : TRUE

\* simulation.py:77-104: the hints that apply to a formula
W_sin == << "s", "i", "n" >>
W_cos == << "c", "o", "s" >>
W_tan == << "t", "a", "n" >>
W_sinh == << "s", "i", "n", "h" >>
W_cosh == << "c", "o", "s", "h" >>
W_tanh == << "t", "a", "n", "h" >>
W_sqrt == << "s", "q", "r", "t" >>
W_log == << "l", "o", "g" >>
W_exp == << "e", "x", "p" >>
W_pow == << "*", "*" >>
W_mul == << "*" >>
FALLBACK_HINT == "Try basic functions like sin, cos, or polynomials"
hints_for(f) ==
    (IF Contains(f, W_sin) /\ ~Contains(f, W_sinh) THEN {"Uses sine function"} ELSE {})
    \cup (IF Contains(f, W_cos) /\ ~Contains(f, W_cosh) THEN {"Uses cosine function"} ELSE {})
    \cup (IF Contains(f, W_tan) /\ ~Contains(f, W_tanh) THEN {"Uses tangent function"} ELSE {})
    \cup (IF Contains(f, W_sinh) THEN {"Uses hyperbolic sine"} ELSE {})
    \cup (IF Contains(f, W_cosh) THEN {"Uses hyperbolic cosine"} ELSE {})
    \cup (IF Contains(f, W_tanh) THEN {"Uses hyperbolic tangent"} ELSE {})
    \cup (IF Contains(f, W_sqrt) THEN {"Uses square root"} ELSE {})
    \cup (IF Contains(f, W_log) THEN {"Uses logarithm"} ELSE {})
    \cup (IF Contains(f, W_exp) THEN {"Uses exponential"} ELSE {})
    \cup (IF Contains(f, W_pow) THEN {"Uses power/exponentiation"} ELSE {})
    \cup (IF Contains(f, W_mul) /\ ~Contains(f, W_pow) THEN {"Uses multiplication"} ELSE {})

\* mutant of no_hints: the budget compared with < (off by one)
no_hints_lt(h) == h < 0

\* simulation.py:72
no_hints(h) == h <= 0

\* mutant of get_hint: a hint costs points
get_hint_cost(s) ==
    IF no_hints(s.hints_available)
    THEN { [self |-> s, ret |-> None] }
    ELSE LET t == [s EXCEPT !.hints_available = s.hints_available - 1,
                            !.score = Max2(0, s.score - SKIP_PENALTY)]
             hints == hints_for(s.target_formula)
         IN  IF hints # {}
             THEN { [self |-> t, ret |-> << h >>] : h \in hints }
             ELSE { [self |-> t, ret |-> << FALLBACK_HINT >>] }

\* simulation.py:70-104: the set of (object left, value returned)
get_hint(s) ==
    IF no_hints(s.hints_available)
    THEN { [self |-> s, ret |-> None] }
    ELSE LET t == [s EXCEPT !.hints_available = s.hints_available - 1]
             hints == hints_for(s.target_formula)
         IN  IF hints # {}
             THEN { [self |-> t, ret |-> << h >>] : h \in hints }
             ELSE { [self |-> t, ret |-> << FALLBACK_HINT >>] }

\* renderer.py:203-205: the indices the error plot reads from player_pts and
\* target_pts, range(0, len(target_pts), max(len(target_pts) // 20, 1))
error_plot_indices(n) == { i \in 0..(n - 1) : i % Max2(n \div 20, 1) = 0 }

(***************************************************************************)
(* The state machine: one Simulation and the commands called on it.        *)
(***************************************************************************)
self ==
    [ target_formula  |-> target_formula,
      target_pts      |-> target_pts,
      player_pts      |-> player_pts,
      y_min           |-> y_min,
      y_max           |-> y_max,
      is_valid        |-> is_valid,
      is_win          |-> is_win,
      text_input      |-> text_input,
      current_error   |-> current_error,
      difficulty      |-> difficulty,
      level           |-> level,
      score           |-> score,
      hints_available |-> hints_available,
      raised          |-> raised ]

\* the object after the step is s
Becomes(s) ==
    /\ target_formula' = s.target_formula
    /\ target_pts' = s.target_pts
    /\ player_pts' = s.player_pts
    /\ y_min' = s.y_min
    /\ y_max' = s.y_max
    /\ is_valid' = s.is_valid
    /\ is_win' = s.is_win
    /\ text_input' = s.text_input
    /\ current_error' = s.current_error
    /\ difficulty' = s.difficulty
    /\ level' = s.level
    /\ score' = s.score
    /\ hints_available' = s.hints_available
    /\ raised' = s.raised

\* game.py:21-45: Game() builds its Simulation (simulation.py:19-45) and opens
\* on the menu
Init ==
    \E s \in Simulation :
        /\ target_formula = s.target_formula
        /\ target_pts = s.target_pts
        /\ player_pts = s.player_pts
        /\ y_min = s.y_min
        /\ y_max = s.y_max
        /\ is_valid = s.is_valid
        /\ is_win = s.is_win
        /\ text_input = s.text_input
        /\ current_error = s.current_error
        /\ difficulty = s.difficulty
        /\ level = s.level
        /\ score = s.score
        /\ hints_available = s.hints_available
        /\ raised = s.raised
        /\ state = "menu"
        /\ running = TRUE
        /\ hint_message = None
        /\ hint_timer = 0
        /\ menu_selection = 0
        /\ event = None
        /\ op = "init"
        /\ ret = None

\* The commands of the Simulation called on it directly, as
\* test_simulation.py calls them: the fields of Game stay as they are.
NewLevel ==
    \E s \in new_level(self) :
        /\ raised = None
        /\ Becomes(s)
        /\ UNCHANGED game_vars
        /\ op' = "new_level"
        /\ ret' = None

SkipLevel ==
    \E s \in skip_level(self) :
        /\ raised = None
        /\ Becomes(s)
        /\ UNCHANGED game_vars
        /\ op' = "skip_level"
        /\ ret' = None

GetHint ==
    \E r \in get_hint(self) :
        /\ raised = None
        /\ Becomes(r.self)
        /\ UNCHANGED game_vars
        /\ op' = "get_hint"
        /\ ret' = r.ret

\* the texts update_player is called with: the fixed ones and the target formula
PlayerTexts == FixedTexts \cup { target_formula, Trailing(target_formula) }

\* update_player called with one of the texts.  level is unbounded in the
\* program: a win is taken only below MaxLevel
Edit(texts) ==
    \E text \in texts :
        \E s \in { update_player(self, text) } :
            /\ raised = None
            /\ s.level <= MaxLevel
            /\ Becomes(s)
            /\ UNCHANGED game_vars
            /\ op' = "update_player"
            /\ ret' = None

UpdatePlayer == Edit(PlayerTexts)

Next ==
    \/ NewLevel
    \/ SkipLevel
    \/ GetHint
    \/ UpdatePlayer

Spec == Init /\ [][Next]_vars

\* The sampler on texts of every kind: update_player with the wider set of
\* texts, and new_level to move through the formulas.
UpdateSampler == Edit(PlayerTexts \cup SamplerTexts)

SamplerNext ==
    \/ UpdateSampler
    \/ NewLevel

SamplerSpec == Init /\ [][SamplerNext]_vars

\* The target assigned directly, as test_simulation.py does, with formulas and
\* with texts that are no template, and the player's edits against it.
SetTarget ==
    \E f \in AllTemplates \cup TargetTexts :
        \E s \in { set_target(self, f) } :
            /\ raised = None
            /\ Becomes(s)
            /\ UNCHANGED game_vars
            /\ op' = "calc_target"
            /\ ret' = None

TargetNext ==
    \/ SetTarget
    \/ UpdatePlayer

TargetSpec == Init /\ [][TargetNext]_vars

(***************************************************************************)
(* Game (src/game.py): the game states and the key handlers around the     *)
(* Simulation.  A Game is the record of its fields, with its Simulation in *)
(* sim; a handler is an operator from the Game and the key to the set of   *)
(* Games it can leave.  called is the command of the Simulation the        *)
(* handler invoked ("init" for the constructor, "none" for none).  The     *)
(* timers of the visual effects (screen shake, flash) are read by the      *)
(* drawing code only and are left out.                                     *)
(***************************************************************************)
\* config.py:178 has 300 frames; the model displays a hint for fewer frames
HINT_DISPLAY_DURATION == 2

NO_HINTS_MESSAGE == "No hints available!"

\* the keys of the model, by their pygame names
Keys ==
    { "K_UP", "K_DOWN", "K_RETURN", "K_SPACE", "K_ESCAPE", "K_BACKSPACE", "K_TAB",
      "K_h", "K_p", "K_q", "K_x" }

\* event.unicode when it is not empty and printable (game.py:116), else <<>>
unicode(key) ==
    CASE key = "K_SPACE" -> << " " >>
      [] key = "K_h" -> << "h" >>
      [] key = "K_p" -> << "p" >>
      [] key = "K_q" -> << "q" >>
      [] key = "K_x" -> << "x" >>
      [] OTHER -> << >>

\* the keys that type a character while playing (game.py:115-117)
TypingKeys == { k \in Keys \ {"K_h"} : unicode(k) # << >> }

\* the handler leaves the Game g, having invoked the command c
Handled(g, c) == [g EXCEPT !.called = c]

\* game.py:78-91
handle_menu_input(g, key) ==
    IF key = "K_UP"
    THEN { [g EXCEPT !.menu_selection = (g.menu_selection - 1) % 3] }
    ELSE IF key = "K_DOWN"
    THEN { [g EXCEPT !.menu_selection = (g.menu_selection + 1) % 3] }
    ELSE IF key \in {"K_RETURN", "K_SPACE"}
    THEN IF g.menu_selection = 0
         THEN { Handled([g EXCEPT !.state = "playing", !.sim = s], "init") : s \in Simulation }
         ELSE IF g.menu_selection = 1
         THEN { [g EXCEPT !.state = "instructions"] }
         ELSE IF g.menu_selection = 2
         THEN { [g EXCEPT !.running = FALSE] }
         ELSE { g }
    ELSE { g }

\* game.py:93-96
handle_instructions_input(g, key) ==
    IF key \in {"K_ESCAPE", "K_RETURN"} THEN { [g EXCEPT !.state = "menu"] } ELSE { g }

\* mutant of on_return: RETURN starts a new level whether or not the level is won
on_return_always(g) ==
    { Handled([g EXCEPT !.sim = s, !.hint_message = None], "new_level") : s \in new_level(g.sim) }

\* game.py:104-109
on_return(g) ==
    IF g.sim.is_win
    THEN { Handled([g EXCEPT !.sim = s, !.hint_message = None], "new_level") :
             s \in new_level(g.sim) }
    ELSE { g }

\* game.py:138-146
request_hint(g) ==
    { IF r.ret # None
      THEN Handled([g EXCEPT !.sim = r.self, !.hint_message = r.ret,
                             !.hint_timer = HINT_DISPLAY_DURATION], "get_hint")
      ELSE Handled([g EXCEPT !.sim = r.self, !.hint_message = << NO_HINTS_MESSAGE >>,
                             !.hint_timer = HINT_DISPLAY_DURATION \div 2], "get_hint") :
        r \in get_hint(g.sim) }

\* game.py:98-117
handle_playing_input(g, key) ==
    IF key = "K_ESCAPE"
    THEN { [g EXCEPT !.state = "paused"] }
    ELSE IF key = "K_BACKSPACE"
    THEN { Handled([g EXCEPT !.sim = s], "update_player") :
             s \in { update_player(g.sim, SubSeq(g.sim.text_input, 1,
                                                 Len(g.sim.text_input) - 1)) } }
    ELSE IF key = "K_RETURN"
    THEN on_return(g)
    ELSE IF key = "K_TAB"
    THEN { Handled([g EXCEPT !.sim = s, !.hint_message = None], "skip_level") :
             s \in skip_level(g.sim) }
    ELSE IF key = "K_h"
    THEN request_hint(g)
    ELSE IF unicode(key) # << >>
    THEN { Handled([g EXCEPT !.sim = s], "update_player") :
             s \in { update_player(g.sim, g.sim.text_input \o unicode(key)) } }
    ELSE { g }

\* mutant of handle_paused_input: leaving the pause installs a fresh Simulation
handle_paused_input_restart(g, key) ==
    IF key \in {"K_ESCAPE", "K_p"}
    THEN { Handled([g EXCEPT !.state = "playing", !.sim = s], "init") : s \in Simulation }
    ELSE IF key = "K_q" THEN { [g EXCEPT !.state = "menu"] }
    ELSE { g }

\* game.py:124-129
handle_paused_input(g, key) ==
    IF key \in {"K_ESCAPE", "K_p"} THEN { [g EXCEPT !.state = "playing"] }
    ELSE IF key = "K_q" THEN { [g EXCEPT !.state = "menu"] }
    ELSE { g }

\* game.py:131-136
handle_game_over_input(g, key) ==
    IF key \in {"K_RETURN", "K_SPACE"} THEN { [g EXCEPT !.state = "menu"] }
    ELSE IF key = "K_ESCAPE" THEN { [g EXCEPT !.running = FALSE] }
    ELSE { g }

\* game.py:65-76
handle_keydown(g, key) ==
    IF g.state = "menu" THEN handle_menu_input(g, key)
    ELSE IF g.state = "instructions" THEN handle_instructions_input(g, key)
    ELSE IF g.state = "playing" THEN handle_playing_input(g, key)
    ELSE IF g.state = "paused" THEN handle_paused_input(g, key)
    ELSE IF g.state = "game_over" THEN handle_game_over_input(g, key)
    ELSE { g }

\* game.py:148-159: the hint timer of a frame
update_logic(g) ==
    IF g.state = "playing" /\ g.hint_timer > 0
    THEN [g EXCEPT !.hint_timer = g.hint_timer - 1,
                   !.hint_message = IF g.hint_timer - 1 = 0 THEN None ELSE g.hint_message]
    ELSE g

\* the Game of the current state, before any command is invoked
game ==
    [ sim            |-> self,
      state          |-> state,
      running        |-> running,
      hint_message   |-> hint_message,
      hint_timer     |-> hint_timer,
      menu_selection |-> menu_selection,
      called         |-> "none" ]

\* the Game after the step is g
BecomesGame(g) ==
    /\ Becomes(g.sim)
    /\ state' = g.state
    /\ running' = g.running
    /\ hint_message' = g.hint_message
    /\ hint_timer' = g.hint_timer
    /\ menu_selection' = g.menu_selection

\* game.py:57-63: a KEYDOWN event of the main loop.  The loop runs while
\* running holds and no exception has ended the program; the text typed and
\* the level are unbounded in the program and cut off here.
KeyDown ==
    \E key \in Keys :
        /\ running
        /\ raised = None
        /\ (state = "playing" /\ key \in TypingKeys) => Len(text_input) < MaxText
        /\ \E g \in handle_keydown(game, key) :
            /\ g.sim.level <= MaxGameLevel
            /\ BecomesGame(g)
            /\ event' = << key >>
            /\ op' = g.called
            /\ ret' = None

\* game.py:60-61: the QUIT event
Quit ==
    /\ running
    /\ raised = None
    /\ running' = FALSE
    /\ event' = << "QUIT" >>
    /\ op' = "none"
    /\ ret' = None
    /\ UNCHANGED << target_formula, target_pts, player_pts, y_min, y_max, is_valid,
                    is_win, text_input, current_error, difficulty, level, score,
                    hints_available, raised, state, hint_message, hint_timer,
                    menu_selection >>

\* game.py:51: _update_logic of one frame
Tick ==
    /\ running
    /\ raised = None
    /\ BecomesGame(update_logic(game))
    /\ event' = None
    /\ op' = "update_logic"
    /\ ret' = None

GameNext ==
    \/ KeyDown
    \/ Quit
    \/ Tick

GameSpec == Init /\ [][GameNext]_vars

(***************************************************************************)
(* Properties.                                                             *)
(***************************************************************************)
\* the tiers as the level ranges state them: easy up to 3, medium 4..6,
\* hard 7..10, expert from 11
TierByRange(lv) ==
    IF lv <= 3 THEN "easy"
    ELSE IF lv <= 6 THEN "medium"
    ELSE IF lv <= 10 THEN "hard"
    ELSE "expert"

\* current_error is a value strictly below tol hundredths
ErrorBelow(tol) ==
    /\ current_error # None
    /\ current_error[1] * TOL_DEN < tol * current_error[2]

\* C1 as stated: is_win holds only if both curves are non-empty, current_error
\* is not None and current_error is strictly below the error_tolerance of the
\* tier of the current level.
C1_WinBelowToleranceOfLevelTier ==
    is_win =>
        /\ target_pts # << >>
        /\ player_pts # << >>
        /\ ErrorBelow(DIFFICULTY_LEVELS[get_difficulty_for_level(level)].error_tolerance)

\* C1 amended: is_win holds only if both curves are non-empty, current_error is
\* not None and current_error is strictly below the error_tolerance of the tier
\* stored in difficulty (the tier of the level that was played, which a win
\* has already incremented).
C1_WinBelowToleranceOfDifficulty ==
    is_win =>
        /\ target_pts # << >>
        /\ player_pts # << >>
        /\ ErrorBelow(DIFFICULTY_LEVELS[difficulty].error_tolerance)

\* a win with a non-zero error, after which level has moved to the next tier
C1_Witness ==
    /\ is_win
    /\ op = "update_player"
    /\ current_error # None
    /\ current_error[1] > 0
    /\ difficulty # get_difficulty_for_level(level)

\* C2 as stated: an update_player call that ends with is_win true adds the
\* points of the tier of the level held before the call to score and adds 1 to
\* level; one that ends with is_win false leaves score and level unchanged.
C2_WinAwardsPointsOfLevelTier ==
    [][ op' = "update_player" =>
            IF is_win'
            THEN /\ score' = score + DIFFICULTY_LEVELS[get_difficulty_for_level(level)].points
                 /\ level' = level + 1
            ELSE /\ score' = score
                 /\ level' = level ]_vars

\* C3: update_player called with the target formula as text leaves is_valid
\* true, current_error equal to 0 and is_win true, for every formula new_level
\* selects.
C3_ExactMatchWins ==
    (op = "update_player" /\ text_input = target_formula) =>
        /\ is_valid
        /\ current_error # None
        /\ current_error[1] = 0
        /\ is_win

\* the exact match of an expert formula
C3_Witness ==
    /\ op = "update_player"
    /\ text_input = target_formula
    /\ target_formula = expert_5
    /\ is_win

\* C4: the tier computed for a level is easy up to 3, medium for 4..6, hard for
\* 7..10 and expert from 11, and new_level stores that tier in difficulty.
C4_TierBoundaries ==
    /\ \A lv \in 0..(MaxLevel + 2) : get_difficulty_for_level(lv) = TierByRange(lv)
    /\ op \in {"init", "new_level", "skip_level"} => difficulty = TierByRange(level)

\* new_level at the boundary level 11
C4_Witness ==
    /\ op = "new_level"
    /\ level = 11
    /\ difficulty = "expert"

C6_SkipPenaltyFloored ==
    [][ /\ skip_score(30) = 0
        /\ skip_score(100) = 50
        /\ skip_score(0) = 0
        /\ op' = "skip_level" =>
              /\ score' = (IF score >= 50 THEN score - 50 ELSE 0)
              /\ score' >= 0
              /\ text_input' = << >>
              /\ ~is_win'
              /\ \E i \in DOMAIN FUNCTION_TEMPLATES[TierByRange(level)] :
                     target_formula' = FUNCTION_TEMPLATES[TierByRange(level)][i] ]_vars

\* a skip that took 50 from the 100 points of the first win
C6_Witness ==
    /\ op = "skip_level"
    /\ score = 50
    /\ level = 2

\* C7: the hint budget starts at 3, is never negative and never increases;
\* get_hint with a positive budget takes 1 from it and returns a text, get_hint
\* with budget 0 returns None and leaves the budget at 0.
C7_HintBudget ==
    /\ hints_available = 3
    /\ [][ /\ hints_available' >= 0
           /\ hints_available' <= hints_available
           /\ op' = "get_hint" =>
                 IF hints_available > 0
                 THEN hints_available' = hints_available - 1 /\ ret' # None
                 ELSE hints_available' = 0 /\ ret' = None ]_vars

\* a request with the budget exhausted
C7_Witness ==
    /\ op = "get_hint"
    /\ ret = None
    /\ hints_available = 0

\* C8: after new_level, called directly or through skip_level, text_input is
\* empty, player_pts is empty, is_win is false and current_error is None.
C8_NewLevelResetsPlayer ==
    op \in {"new_level", "skip_level"} =>
        /\ text_input = << >>
        /\ player_pts = << >>
        /\ ~is_win
        /\ current_error = None

\* new_level after the first level was won
C8_Witness ==
    /\ op = "new_level"
    /\ level = 2
    /\ score = 100

\* C9: new_level leaves score, level and hints_available unchanged; skip_level
\* leaves level and hints_available unchanged and changes score by the penalty
\* only.
C9_NewLevelFrame ==
    [][ /\ op' = "new_level" =>
              /\ score' = score
              /\ level' = level
              /\ hints_available' = hints_available
        /\ op' = "skip_level" =>
              /\ level' = level
              /\ hints_available' = hints_available
              /\ score' \in {score - SKIP_PENALTY, 0}
              /\ score' <= score ]_vars

\* new_level with points scored, levels won and hints used
C9_Witness ==
    /\ op = "new_level"
    /\ level = 3
    /\ score = 200
    /\ hints_available = 1

\* C10: level is always at least 1 and never decreases from one state to the
\* next, and score is never negative.
C10_LevelMonotonicScoreNonNegative ==
    /\ level >= 1
    /\ score >= 0
    /\ [][ /\ level' >= level
           /\ level' >= 1
           /\ score' >= 0 ]_vars

\* levels won, the budget used up and the score skipped down to 0
C10_Witness ==
    /\ op = "skip_level"
    /\ level = 5
    /\ score = 0
    /\ hints_available = 0

\* the texts with no expression, or whose expression is malformed
InvalidTexts == { txt_empty, txt_spaces, txt_unclosed }

\* C11: update_player with an empty, whitespace-only or malformed text ends
\* with is_valid false, player_pts empty, is_win false and current_error None,
\* and leaves score, level, hints_available, target_formula, target_pts and the
\* y-range unchanged.
C11_InvalidTextClearsPlayer ==
    [][ (op' = "update_player" /\ text_input' \in InvalidTexts) =>
            /\ ~is_valid'
            /\ player_pts' = << >>
            /\ ~is_win'
            /\ current_error' = None
            /\ UNCHANGED << score, level, hints_available, target_formula,
                            target_pts, y_min, y_max >> ]_vars

\* a whitespace-only text typed after the first level was won
C11_Witness ==
    /\ op = "update_player"
    /\ text_input = txt_spaces
    /\ level = 2
    /\ score = 100
    /\ ~is_win

\* C12: update_player returns normally, whatever the text and whatever each
\* sample evaluates to, and every command is accepted afterwards.
C12_UpdatePlayerNeverRaises ==
    op = "update_player" =>
        /\ raised = None
        /\ ENABLED UpdatePlayer
        /\ ENABLED NewLevel
        /\ ENABLED SkipLevel
        /\ ENABLED GetHint

\* whether the evaluation of a text at position i gives a finite real
Tree(text) == Parse(Strip(text))
FiniteReal(text, i) == Eval(Tree(text), val_x(i)).k \in {"real", "int"}

\* the positions i..nb_points of a text that give a finite real, in ascending
\* order, each with its value
RECURSIVE FinitePoints(_, _)
FinitePoints(text, i) ==
    IF i > nb_points THEN << >>
    ELSE IF FiniteReal(text, i)
    THEN << << val_x(i), Eval(Tree(text), val_x(i)).v >> >> \o FinitePoints(text, i + 1)
    ELSE FinitePoints(text, i + 1)

\* C13: the curve the sampler produces for a text holds exactly the positions
\* whose evaluation gave a finite real, in ascending order; it is valid iff it
\* is not empty; a text that succeeds at every position gives nb_points + 1
\* points.
C13_CurveIsTheFinitePositions ==
    op = "update_player" =>
        /\ player_pts = FinitePoints(text_input, 0)
        /\ is_valid <=> player_pts # << >>
        /\ (\A i \in 0..nb_points : FiniteReal(text_input, i)) =>
               Len(player_pts) = nb_points + 1

\* the texts that name an identifier outside x and the registry, or that use
\* syntax outside numbers, x, registry calls, parentheses and arithmetic
OutsideGrammar == { txt_import, txt_unknown, txt_cmp, txt_cond, txt_str }

\* C14: a text that references an unregistered identifier or uses syntax
\* outside the grammar is rejected as a whole: update_player ends with
\* is_valid false, player_pts empty and is_win false.
C14_OutsideGrammarRejected ==
    (op = "update_player" /\ text_input \in OutsideGrammar) =>
        /\ ~is_valid
        /\ player_pts = << >>
        /\ ~is_win

\* the formulas of the tier of a level
TemplatesOfLevel(lv) ==
    { FUNCTION_TEMPLATES[TierByRange(lv)][i] : i \in DOMAIN FUNCTION_TEMPLATES[TierByRange(lv)] }

\* C15: after every new_level (also the constructor's and skip_level's)
\* target_formula is one of the formulas of FUNCTION_TEMPLATES for the tier of
\* the current level, and update_player and get_hint leave target_formula
\* unchanged.
C15_TargetFromTierTemplates ==
    /\ target_formula \in TemplatesOfLevel(level)
    /\ [][ /\ op' \in {"new_level", "skip_level"} =>
                 target_formula' \in TemplatesOfLevel(level')
           /\ op' \in {"update_player", "get_hint"} =>
                 target_formula' = target_formula ]_vars

\* new_level at the first level of the hard tier
C15_Witness ==
    /\ op = "new_level"
    /\ level = 7
    /\ target_formula = hard_4

\* C16: a freshly created Simulation has level 1, score 0, hints_available 3,
\* difficulty easy, is_win false, an empty player text and a non-empty target
\* curve.
C16_FreshSimulation ==
    op = "init" =>
        /\ level = 1
        /\ score = 0
        /\ hints_available = 3
        /\ difficulty = "easy"
        /\ ~is_win
        /\ text_input = << >>
        /\ target_pts # << >>

\* a fresh Simulation whose formula is x ** 2
C16_Witness ==
    /\ op = "init"
    /\ target_formula = easy_4
    /\ Len(target_pts) = nb_points + 1

\* C17: no state is terminal: in every reachable state each of update_player,
\* new_level, skip_level and get_hint is enabled.
C17_NoTerminalState ==
    /\ ENABLED UpdatePlayer
    /\ ENABLED NewLevel
    /\ ENABLED SkipLevel
    /\ ENABLED GetHint

\* C18: within one level score is awarded and level is incremented at most
\* once: an update_player call made while is_win is true (the level is already
\* won, and new_level, which clears is_win, has not been called since) changes
\* neither score nor level.
C18_OneAwardPerLevel ==
    [][ (is_win /\ op' = "update_player") =>
            /\ score' = score
            /\ level' = level ]_vars

\* C19: in every reachable state is_valid is true iff player_pts is non-empty.
C19_ValidIffPlayerCurve ==
    is_valid <=> player_pts # << >>

\* the sum of |player_y - target_y| over the pairs of the positions in idx
RECURSIVE SumOver(_, _, _)
SumOver(tp, pp, idx) ==
    IF idx = {} THEN 0
    ELSE LET i == CHOOSE j \in idx : TRUE
         IN  (IF pp[i][2] >= tp[i][2] THEN pp[i][2] - tp[i][2] ELSE tp[i][2] - pp[i][2])
             + SumOver(tp, pp, idx \ {i})

\* C20: after a valid player edit with a non-empty target curve, current_error
\* is the mean over i < min(len(target_pts), len(player_pts)) of
\* |player_y[i] - target_y[i]| divided by max(y_max - y_min, 1e-6), and is_win
\* is true iff current_error is strictly below the error_tolerance of the
\* tier in difficulty (an error equal to the tolerance is not a win).
C20_ErrorIsNormalizedMean ==
    [][ (op' = "update_player" /\ raised' = None /\ is_valid' /\ target_pts # << >>) =>
            LET n    == IF Len(target_pts') < Len(player_pts')
                        THEN Len(target_pts') ELSE Len(player_pts')
                span == IF y_max - y_min > SPAN_EPS THEN y_max - y_min ELSE SPAN_EPS
                sum  == SumOver(target_pts', player_pts', 1..n)
                tol  == DIFFICULTY_LEVELS[difficulty].error_tolerance
            IN  /\ current_error' = << sum, span * n >>
                /\ is_win' <=> (sum * TOL_DEN < tol * span * n) ]_vars

\* x + 0.7 against the formula x on the easy tier: the error is 0.7 / 14, equal
\* to the tolerance 0.05, and the edit is not a win
C20_Witness ==
    /\ op = "update_player"
    /\ target_formula = easy_3
    /\ text_input = txt_x_plus_07
    /\ difficulty = "easy"
    /\ current_error # None
    /\ current_error[1] * TOL_DEN = 5 * current_error[2]
    /\ ~is_win

\* C21: every pair (target_pts[i], player_pts[i]) that the win check compares
\* (the first min(len) pairs, by index) has the same x coordinate.
C21_ComparedPairsShareX ==
    (op = "update_player" /\ raised = None /\ is_valid /\ target_pts # << >>) =>
        \A i \in 1..Min2(Len(target_pts), Len(player_pts)) :
            target_pts[i][1] = player_pts[i][1]

\* C22: in every reachable state target_pts and the y-range are what sampling
\* the current target_formula gives (recomputing the target changes nothing),
\* and player_pts is what sampling the current text_input gives.
C22_CurvesAreCurrent ==
    /\ calc_points(target_formula).raised = None
    /\ calc_target(self).target_pts = target_pts
    /\ calc_target(self).y_min = y_min
    /\ calc_target(self).y_max = y_max
    /\ calc_points(text_input).raised = None
    /\ player_pts = calc_points(text_input).pts

\* the names of the functions a syntax tree calls, and the operators it applies
RECURSIVE CalledIn(_)
CalledIn(n) ==
    CASE n.op = "call" -> {n.fn} \cup UNION { CalledIn(n.args[i]) : i \in DOMAIN n.args }
      [] n.op = "bin" -> CalledIn(n.l) \cup CalledIn(n.r)
      [] n.op = "neg" -> CalledIn(n.a)
      [] OTHER -> {}
RECURSIVE OperatorsIn(_)
OperatorsIn(n) ==
    CASE n.op = "call" -> UNION { OperatorsIn(n.args[i]) : i \in DOMAIN n.args }
      [] n.op = "bin" -> {n.f} \cup OperatorsIn(n.l) \cup OperatorsIn(n.r)
      [] n.op = "neg" -> OperatorsIn(n.a)
      [] OTHER -> {}

\* the hints that are true of a formula: the function or operator each one
\* names is in the formula's syntax tree
TrueHints(f) ==
    { h \in { << "Uses sine function", "sin" >>, << "Uses cosine function", "cos" >>,
              << "Uses tangent function", "tan" >>, << "Uses hyperbolic sine", "sinh" >>,
              << "Uses hyperbolic cosine", "cosh" >>, << "Uses hyperbolic tangent", "tanh" >>,
              << "Uses square root", "sqrt" >>, << "Uses logarithm", "log" >>,
              << "Uses exponential", "exp" >> } : h[2] \in CalledIn(Parse(f)) }
    \cup { h \in { << "Uses power/exponentiation", "**" >>, << "Uses multiplication", "*" >> } :
             h[2] \in OperatorsIn(Parse(f)) }

\* C23: a hint returned by get_hint with a positive budget names only a
\* function or operator that the target formula contains, and the fallback
\* message is returned iff no hint is true of the formula.
C23_HintsAreTrue ==
    (op = "get_hint" /\ ret # None) =>
        /\ ret[1] # FALLBACK_HINT => ret[1] \in { h[1] : h \in TrueHints(target_formula) }
        /\ ret[1] = FALLBACK_HINT <=> TrueHints(target_formula) = {}

\* the sample positions a curve keeps
KeptPositions(pts) == { pts[i][1] : i \in DOMAIN pts }

\* C24: `**` applied to a negative base with a fractional exponent has the
\* outcome of sqrt applied to a negative argument: (x - 5) ** 0.5 keeps exactly
\* the sample positions that sqrt(x - 5) keeps.
C24_PowerLikeSqrt ==
    (op = "update_player" /\ text_input = txt_complex) =>
        KeptPositions(player_pts) = KeptPositions(calc_points(txt_sqrt_neg).pts)

\* the smallest and the largest y of a non-empty curve
MinY(pts) == CHOOSE v \in { pts[i][2] : i \in DOMAIN pts } : \A j \in DOMAIN pts : v <= pts[j][2]
MaxY(pts) == CHOOSE v \in { pts[i][2] : i \in DOMAIN pts } : \A j \in DOMAIN pts : v >= pts[j][2]

C27_ErrorPlotInRange ==
    (is_valid /\ player_pts # << >> /\ target_pts # << >>) =>
        /\ Len(player_pts) >= Len(target_pts)
        /\ \A i \in error_plot_indices(Len(target_pts)) : i + 1 \in DOMAIN player_pts

\* C28: get_hint changes nothing but hints_available: score, level,
\* difficulty, target_formula, target_pts, player_pts, text_input, is_valid,
\* is_win and current_error are the same before and after the call, whether or
\* not a hint was available.
C28_GetHintFrame ==
    [][ op' = "get_hint" =>
            UNCHANGED << score, level, difficulty, target_formula, target_pts,
                         player_pts, text_input, is_valid, is_win, current_error >> ]_vars

\* a hint requested right after a win, with a score to lose and the budget
\* going from 1 to 0
C28_Witness ==
    /\ op = "get_hint"
    /\ ret # None
    /\ hints_available = 0
    /\ is_win
    /\ score = 100
    /\ text_input = target_formula

\* the fields of the Simulation
sim_vars ==
    << target_formula, target_pts, player_pts, y_min, y_max, is_valid, is_win,
       text_input, current_error, difficulty, level, score, hints_available, raised >>

\* the step handles the press of one of the keys
KeyPress(keys) == event' # None /\ event'[1] \in keys /\ op' # "update_logic"

\* C29: in state PLAYING a RETURN key press starts a new level iff is_win is
\* true and changes nothing in the Simulation when is_win is false; a key
\* press starts a new level only if it is RETURN after a win or TAB (a skip),
\* and both leave hint_message None.
C29_ReturnStartsLevelIffWin ==
    [][ (state = "playing" /\ KeyPress(Keys)) =>
            /\ KeyPress({"K_RETURN"}) =>
                  IF is_win
                  THEN /\ op' = "new_level"
                       /\ \E s \in new_level(self) : self' = s
                       /\ hint_message' = None
                  ELSE /\ op' = "none"
                       /\ UNCHANGED sim_vars
            /\ KeyPress({"K_TAB"}) =>
                  /\ op' = "skip_level"
                  /\ \E s \in skip_level(self) : self' = s
                  /\ hint_message' = None
            /\ op' \in {"new_level", "skip_level", "init"} =>
                  \/ KeyPress({"K_RETURN"}) /\ is_win
                  \/ KeyPress({"K_TAB"}) ]_vars

\* RETURN after the first level was won while a hint was displayed: the new
\* level has started and the hint is cleared before its timer has run out
C29_Witness ==
    /\ state = "playing"
    /\ event = << "K_RETURN" >>
    /\ op = "new_level"
    /\ level = 2
    /\ score = 100
    /\ text_input = << >>
    /\ hint_message = None
    /\ hint_timer > 0

\* C30: a key press handled in the MENU, INSTRUCTIONS, PAUSED or GAME_OVER
\* state invokes no command of the Simulation and leaves it unchanged, except
\* Play selected in the menu, which installs a fresh Simulation (level 1, score
\* 0, 3 hints); pausing and resuming change nothing in the Simulation; and
\* only Play in the menu takes level back or refills the hints.
C30_OnlyPlayResetsProgress ==
    [][ /\ (state # "playing" /\ KeyPress(Keys)) =>
              \/ /\ op' = "none"
                 /\ UNCHANGED sim_vars
              \/ /\ state = "menu"
                 /\ menu_selection = 0
                 /\ KeyPress({"K_RETURN", "K_SPACE"})
                 /\ op' = "init"
                 /\ state' = "playing"
                 /\ self' \in Simulation
                 /\ level' = 1
                 /\ score' = 0
                 /\ hints_available' = 3
        /\ (state = "playing" /\ KeyPress({"K_ESCAPE"})) =>
              /\ state' = "paused"
              /\ UNCHANGED sim_vars
        /\ (state = "paused" /\ KeyPress({"K_ESCAPE", "K_p"})) =>
              /\ state' = "playing"
              /\ UNCHANGED sim_vars
        /\ (level' < level \/ hints_available' > hints_available) =>
              /\ state = "menu"
              /\ menu_selection = 0
              /\ op' = "init" ]_vars

\* the game resumed from the pause with the first level won, a hint used and
\* the text still typed
C30_Witness ==
    /\ state = "playing"
    /\ event = << "K_p" >>
    /\ op = "none"
    /\ level = 2
    /\ score = 100
    /\ hints_available = 2
    /\ text_input = << "x" >>
=============================================================================
